---- MODULE Spec2Model ----
(***************************************************************************)
(* Notification-settings utilities (src/unnamed/part_000), the issue rule  *)
(* editor (issueRuleEditor/index.tsx) and the page size of the discover    *)
(* landing page (eventsV2/landing.tsx).                                    *)
(*                                                                         *)
(* A JavaScript object is modelled as the sequence of its <<key, value>>   *)
(* pairs in the order Object.keys / Object.values / Object.entries visit   *)
(* them: integer-like keys first, in ascending numeric order, then the     *)
(* other string keys in insertion order.  A settings tree is such an       *)
(* object four levels deep: type -> scopeType -> scopeId -> provider ->    *)
(* level.  Keys hold no '.', '[' or ']' (type tags, scope types, numeric   *)
(* ids and "me"), so the path string lodash's set() receives splits back   *)
(* into the three keys it was joined from.                                 *)
(***************************************************************************)
EXTENDS Integers, Sequences, FiniteSets, TLC

\* op: the function called last ("none" before any call); in*: the arguments
\* of the call, as they are now; result: what it returned; thrown: the error
\* it raised instead ("" when it returned)
VARIABLES op, inType, inSettings, inObjects, inData, inProviderList,
          inFallbackValue, inScopeType, inChangedData, inParentIds, inParentId,
          inChoices, inKey, result, thrown

\* The issue rule editor (issueRuleEditor/index.tsx).  state: this.state of
\* the component; now: Date.now(); timers: the setTimeout callbacks not yet
\* run; requests: the api.requestPromise calls not yet settled; sent: how
\* many requests of each kind were sent; lastRun: the handler (or the part of
\* an async handler between two awaits) that ran last, the state it found
\* and what it did besides setState.
VARIABLES state, now, timers, requests, sent, lastRun

\* The saved-queries landing page (eventsV2/landing.tsx): what getEndpoints
\* reads (location.query, state.renderPrebuilt, the prebuilt queries)
VARIABLES inLanding

vars == <<op, inType, inSettings, inObjects, inData, inProviderList,
          inFallbackValue, inScopeType, inChangedData, inParentIds, inParentId,
          inChoices, inKey, result, thrown,
          state, now, timers, requests, sent, lastRun, inLanding>>

(* ------------------------------ bounds -------------------------------- *)

\* longest provider mapping handed to backfillMissingProvidersWithFallback
MaxData == 2
\* longest provider list handed to backfillMissingProvidersWithFallback
MaxList == 2
\* most rows (keys or values put one after the other) a settings tree is built from
MaxRows == 2
\* most rows the input trees of one mergeNotificationSettings call are built from
MaxMergeRows == 2
\* most trees handed to one mergeNotificationSettings call
MaxObjects == 2

(* --------------------------- JavaScript objects ----------------------- *)

\* the numeric value of the integer-like keys in use (project, organization
\* and user ids); every other key is an ordinary string key
IndexOf == ("1" :> 1) @@ ("2" :> 2) @@ ("7" :> 7)

isIndex(key) == key \in DOMAIN IndexOf

Keys(obj) == [i \in 1..Len(obj) |-> obj[i][1]]

Values(obj) == [i \in 1..Len(obj) |-> obj[i][2]]

Has(obj, key) == \E i \in 1..Len(obj) : obj[i][1] = key

\* obj[key] || {}
GetOr(obj, key) ==
    IF Has(obj, key)
    THEN obj[CHOOSE i \in 1..Len(obj) : obj[i][1] = key][2]
    ELSE <<>>

\* obj[key] = value: an existing key keeps its place, a new integer-like key
\* goes to its numeric place among the integer-like keys, any other new key
\* goes to the end
Put(obj, key, value) ==
    IF Has(obj, key)
    THEN [i \in 1..Len(obj) |-> IF obj[i][1] = key THEN <<key, value>> ELSE obj[i]]
    ELSE IF isIndex(key)
    THEN LET n == Cardinality({i \in 1..Len(obj) :
                      isIndex(obj[i][1]) /\ IndexOf[obj[i][1]] < IndexOf[key]})
         IN  SubSeq(obj, 1, n) \o <<<<key, value>>>> \o SubSeq(obj, n + 1, Len(obj))
    ELSE Append(obj, <<key, value>>)

\* Object.fromEntries(entries): later entries overwrite earlier ones
RECURSIVE fromEntries(_)
fromEntries(entries) ==
    IF entries = <<>> THEN <<>>
    ELSE LET last == entries[Len(entries)]
         IN  Put(fromEntries(SubSeq(entries, 1, Len(entries) - 1)), last[1], last[2])

\* array.includes(x)
includes(array, x) == \E i \in 1..Len(array) : array[i] = x

\* array.filter(keep), for a set of kept elements
RECURSIVE filter(_, _)
filter(array, keep) ==
    IF array = <<>> THEN <<>>
    ELSE (IF array[1] \in keep THEN <<array[1]>> ELSE <<>>) \o filter(Tail(array), keep)

SeqsUpTo(S, n) == UNION {[1..k -> S] : k \in 0..n}

(* --------------------------- module constants ------------------------- *)

ALL_PROVIDERS == << <<"email", "default">>, <<"slack", "never">> >>

isGroupedByProject(type) == type \in {"alerts", "email", "workflow"}

\* mutant: every type is grouped by project
getParentKeyAlwaysProject(type) == "project"

getParentKey(type) == IF isGroupedByProject(type) THEN "project" ELSE "organization"

getFallBackValue(type) ==
    CASE type = "alerts" -> "always"
      [] type = "deploy" -> "committed_only"
      [] type = "workflow" -> "subscribe_only"
      [] OTHER -> ""

(* ------------------------------ backfill ------------------------------ *)

\* mutant: the first value that is not "never" wins, not the last
RECURSIVE fallbackFirstWins(_, _)
fallbackFirstWins(values, fallbackValue) ==
    IF values = <<>> THEN fallbackValue
    ELSE IF values[1] = "never" THEN fallbackFirstWins(Tail(values), fallbackValue)
    ELSE values[1]

\* the reduce of the first pass, over Object.values(data), left to right
RECURSIVE fallback(_, _)
fallback(values, fallbackValue) ==
    IF values = <<>> THEN fallbackValue
    ELSE LET previousValue == fallback(SubSeq(values, 1, Len(values) - 1), fallbackValue)
             currentValue == values[Len(values)]
         IN  IF currentValue = "never" THEN previousValue ELSE currentValue

\* mutant: the second pass runs over the keys of data and of providerList
backfillOverGivenKeys(data, providerList, fallbackValue, scopeType) ==
    fromEntries([i \in 1..(Len(data) + Len(providerList)) |->
        LET provider == (Keys(data) \o providerList)[i]
        IN  <<provider,
              IF includes(providerList, provider)
              THEN fallback(Values(data), fallbackValue)
              ELSE IF scopeType = "user" THEN "never" ELSE "default">>])

\* mutant: a provider of providerList keeps the value it has in data
backfillKeepsOwnValue(data, providerList, fallbackValue, scopeType) ==
    fromEntries([i \in 1..Len(ALL_PROVIDERS) |->
        LET provider == Keys(ALL_PROVIDERS)[i]
        IN  <<provider,
              IF includes(providerList, provider)
              THEN IF Has(data, provider) /\ GetOr(data, provider) # "never"
                   THEN GetOr(data, provider)
                   ELSE fallback(Values(data), fallbackValue)
              ELSE IF scopeType = "user" THEN "never" ELSE "default">>])

backfillMissingProvidersWithFallback(data, providerList, fallbackValue, scopeType) ==
    fromEntries([i \in 1..Len(ALL_PROVIDERS) |->
        LET provider == Keys(ALL_PROVIDERS)[i]
        IN  <<provider,
              IF includes(providerList, provider)
              THEN fallback(Values(data), fallbackValue)
              ELSE IF scopeType = "user" THEN "never" ELSE "default">>])

(* ------------------------------- merge -------------------------------- *)

\* lodash set(object, path, value) for a path of plain keys: the objects on
\* the way are kept when they exist and created when they do not (an array
\* when the next key is integer-like, which lists its keys as an object
\* does), the value at the end of the path is replaced
RECURSIVE set(_, _, _)
set(object, path, value) ==
    IF Len(path) = 1 THEN Put(object, path[1], value)
    ELSE Put(object, path[1], set(GetOr(object, path[1]), Tail(path), value))

\* the nested Object.entries(...).map(...) down to the given depth: every
\* <<path, value>> of the object, in the order the callbacks run
RECURSIVE entriesAt(_, _)
entriesAt(obj, depth) ==
    IF depth = 0 THEN << <<<<>>, obj>> >>
    ELSE IF obj = <<>> THEN <<>>
    ELSE LET below == entriesAt(obj[1][2], depth - 1)
         IN  [i \in 1..Len(below) |-> << <<obj[1][1]>> \o below[i][1], below[i][2] >>]
             \o entriesAt(Tail(obj), depth)

\* set(output, [type, scopeType, scopeId].join('.'), settingsByProvider), for
\* every entry in turn
RECURSIVE setAll(_, _)
setAll(output, entries) ==
    IF entries = <<>> THEN output
    ELSE setAll(set(output, entries[1][1], entries[1][2]), Tail(entries))

RECURSIVE mergeInto(_, _)
mergeInto(output, objects) ==
    IF objects = <<>> THEN output
    ELSE mergeInto(setAll(output, entriesAt(objects[1], 3)), Tail(objects))

\* mutant: the provider mappings of a path are merged key by key
RECURSIVE mergeByProvider(_)
mergeByProvider(objects) ==
    IF objects = <<>> THEN <<>>
    ELSE LET output == mergeByProvider(SubSeq(objects, 1, Len(objects) - 1))
             entries == entriesAt(objects[Len(objects)], 3)
         IN  setAll(output,
                    [i \in 1..Len(entries) |->
                        <<entries[i][1],
                          IF Len(entries[i][1]) = 3
                          THEN fromEntries(
                                   (LET path == entries[i][1]
                                        a == GetOr(output, path[1])
                                        b == GetOr(a, path[2])
                                    IN  GetOr(b, path[3]))
                                   \o entries[i][2])
                          ELSE entries[i][2]>>])

mergeNotificationSettings(objects) == mergeInto(<<>>, objects)

(* ------------------------- reading a settings tree -------------------- *)

\* mutant: the default of a provider is used as it is, "default" included
getUserDefaultValuesRawDefaults(notificationType, notificationSettings) ==
    LET user == GetOr(GetOr(notificationSettings, notificationType), "user")
    IN  IF user # <<>> THEN Values(user)[Len(user)] ELSE ALL_PROVIDERS

\* mutant: no defaults when the tree has no user-scope entry
getUserDefaultValuesNoDefaults(notificationType, notificationSettings) ==
    LET user == GetOr(GetOr(notificationSettings, notificationType), "user")
    IN  IF user # <<>> THEN Values(user)[Len(user)] ELSE <<>>

getUserDefaultValues(notificationType, notificationSettings) ==
    LET user == GetOr(GetOr(notificationSettings, notificationType), "user")
    IN  IF user # <<>>
        THEN Values(user)[Len(user)]
        ELSE fromEntries([i \in 1..Len(ALL_PROVIDERS) |->
                 LET provider == ALL_PROVIDERS[i][1]
                     value == ALL_PROVIDERS[i][2]
                 IN  <<provider,
                       IF value = "default" THEN getFallBackValue(notificationType)
                       ELSE value>>])

\* mutant: "default" counts as off, like "never"
getCurrentProvidersSkipsDefault(notificationType, notificationSettings) ==
    LET userData == getUserDefaultValues(notificationType, notificationSettings)
    IN  Keys(filter(userData,
                    {userData[i] : i \in {j \in 1..Len(userData) :
                                              userData[j][2] \notin {"never", "default"}}}))

getCurrentProviders(notificationType, notificationSettings) ==
    LET userData == getUserDefaultValues(notificationType, notificationSettings)
    IN  Keys(filter(userData,
                    {userData[i] : i \in {j \in 1..Len(userData) :
                                              userData[j][2] \notin {"never"}}}))

\* the numbers decideDefault orders the levels by
mapping ==
    ("default" :> 0) @@ ("never" :> 10) @@ ("always" :> 20) @@
    ("subscribe_only" :> 30) @@ ("committed_only" :> 40)

\* mapping[a] - mapping[b]; NaN when a or b has no number, which sort() takes as 0
compare(a, b) ==
    IF a \in DOMAIN mapping /\ b \in DOMAIN mapping THEN mapping[a] - mapping[b] ELSE 0

\* array.sort(compare): a stable sort.  The only array with a value that has
\* no number is the default mapping's <<"", "never">>, on which compare is
\* constantly 0, so every stable sort gives the same order
RECURSIVE insertSorted(_, _)
insertSorted(sorted, x) ==
    IF sorted = <<>> THEN <<x>>
    ELSE IF compare(sorted[Len(sorted)], x) > 0
    THEN Append(insertSorted(SubSeq(sorted, 1, Len(sorted) - 1), x), sorted[Len(sorted)])
    ELSE Append(sorted, x)

RECURSIVE sort(_)
sort(array) ==
    IF array = <<>> THEN <<>>
    ELSE insertSorted(sort(SubSeq(array, 1, Len(array) - 1)), array[Len(array)])

\* array.pop() || otherwise: the last element unless there is none or it is ""
popOr(array, otherwise) ==
    IF array = <<>> \/ array[Len(array)] = "" THEN otherwise ELSE array[Len(array)]

\* objects.flatMap(settingsByProvider => Object.values(settingsByProvider))
RECURSIVE flatValues(_)
flatValues(objs) ==
    IF objs = <<>> THEN <<>> ELSE Values(objs[1]) \o flatValues(Tail(objs))

\* mutant: the parent-specific settings are looked at first
decideDefaultParentFirst(notificationType, notificationSettings) ==
    LET parentIndependentSetting ==
            popOr(sort(Values(getUserDefaultValues(notificationType,
                                                   notificationSettings))), "never")
        parentSpecificSetting ==
            popOr(sort(flatValues(Values(
                      GetOr(GetOr(notificationSettings, notificationType),
                            getParentKey(notificationType))))), "default")
    IN  IF parentSpecificSetting \notin {"default", "never"} THEN parentSpecificSetting
        ELSE parentIndependentSetting

decideDefault(notificationType, notificationSettings) ==
    LET parentIndependentSetting ==
            popOr(sort(Values(getUserDefaultValues(notificationType,
                                                   notificationSettings))), "never")
        parentSpecificSetting ==
            popOr(sort(flatValues(Values(
                      GetOr(GetOr(notificationSettings, notificationType),
                            getParentKey(notificationType))))), "default")
    IN  IF parentIndependentSetting # "never" THEN parentIndependentSetting
        ELSE IF parentSpecificSetting = "default" THEN "never"
        ELSE parentSpecificSetting

\* mutant: only "never" counts as disabled
isEverythingDisabledOnlyNever(notificationType, notificationSettings) ==
    decideDefault(notificationType, notificationSettings) \in {"never"}

isEverythingDisabled(notificationType, notificationSettings) ==
    decideDefault(notificationType, notificationSettings) \in {"never", "default"}

(* --------------------------- string helpers --------------------------- *)

\* A string of provider names is held as the sequence of its parts between
\* the '+' signs: "email+slack" is <<"email", "slack">> and "" is <<"">>.

\* string.split('+'): the parts, never an empty array
split(string) == string

\* array.join('+'): the empty array gives "", as the array holding "" does
join(array) == IF array = <<>> THEN <<"">> ELSE array

\* the order of the provider names as strings (the default order of sort())
StringOrder == <<"", "email", "msteams", "slack">>

stringRank(x) == CHOOSE i \in 1..Len(StringOrder) : StringOrder[i] = x

RECURSIVE insertByString(_, _)
insertByString(sorted, x) ==
    IF sorted = <<>> THEN <<x>>
    ELSE IF stringRank(sorted[Len(sorted)]) > stringRank(x)
    THEN Append(insertByString(SubSeq(sorted, 1, Len(sorted) - 1), x),
                sorted[Len(sorted)])
    ELSE Append(sorted, x)

\* providers.sort(): the array itself, put in string order
RECURSIVE sortStrings(_)
sortStrings(array) ==
    IF array = <<>> THEN <<>>
    ELSE insertByString(sortStrings(SubSeq(array, 1, Len(array) - 1)),
                        array[Len(array)])

\* what providerListToString returns
providerListToString(providers) == join(sortStrings(providers))

\* what providerListToString leaves in the array it was given: sort() sorts
\* in place
providersAfterProviderListToString(providers) == sortStrings(providers)

\* choices is <<>> when no choice list is given and <<rows>> when one is
\* given; the rows matching key, in order
matchingRows(choices, key) ==
    SelectSeq(choices[1], LAMBDA row : row[1] = key)

\* getChoiceString throws Error(`Could not find ${key}`)
getChoiceStringThrows(choices, key) ==
    choices # <<>> /\ matchingRows(choices, key) = <<>>

\* mutant: the first element of the row found is returned
getChoiceStringReturnsKey(choices, key) ==
    IF choices = <<>> THEN "default" ELSE matchingRows(choices, key)[1][1]

\* what getChoiceString returns when it does not throw
getChoiceString(choices, key) ==
    IF choices = <<>> THEN "default" ELSE matchingRows(choices, key)[1][2]

(* --------------------------- patch builders --------------------------- *)

\* Object.entries(notificationSettings[notificationType]) of a tree that has
\* keys but not this one: Object.entries(undefined) throws a TypeError
getStateToPutForProviderThrows(notificationType, notificationSettings, changedData) ==
    /\ Len(Keys(notificationSettings)) # 0
    /\ ~Has(notificationSettings, notificationType)

\* {[notificationType]: {user: {me: settingsByProvider}}}
userMePatch(notificationType, settingsByProvider) ==
    fromEntries(<< <<notificationType,
                    fromEntries(<< <<"user",
                                    fromEntries(<< <<"me", settingsByProvider>> >>)>> >>)>> >>)

\* mutant: every scope is backfilled as the user scope is
getStateToPutForProviderAsUser(notificationType, notificationSettings, changedData) ==
    LET providerList == split(GetOr(changedData, "provider"))
        fallbackValue == getFallBackValue(notificationType)
        byScopeType == GetOr(notificationSettings, notificationType)
    IN  IF Len(Keys(notificationSettings)) # 0
        THEN fromEntries(<< <<notificationType,
                 fromEntries([i \in 1..Len(byScopeType) |->
                     <<byScopeType[i][1],
                       fromEntries([j \in 1..Len(byScopeType[i][2]) |->
                           <<byScopeType[i][2][j][1],
                             backfillMissingProvidersWithFallback(
                                 byScopeType[i][2][j][2], providerList,
                                 fallbackValue, "user")>>])>>])>> >>)
        ELSE userMePatch(notificationType,
                 fromEntries([i \in 1..Len(providerList) |->
                                 <<providerList[i], fallbackValue>>]))

\* what getStateToPutForProvider returns when it does not throw
getStateToPutForProvider(notificationType, notificationSettings, changedData) ==
    LET providerList == split(GetOr(changedData, "provider"))
        fallbackValue == getFallBackValue(notificationType)
        byScopeType == GetOr(notificationSettings, notificationType)
    IN  IF Len(Keys(notificationSettings)) # 0
        THEN fromEntries(<< <<notificationType,
                 fromEntries([i \in 1..Len(byScopeType) |->
                     <<byScopeType[i][1],
                       fromEntries([j \in 1..Len(byScopeType[i][2]) |->
                           <<byScopeType[i][2][j][1],
                             backfillMissingProvidersWithFallback(
                                 byScopeType[i][2][j][2], providerList,
                                 fallbackValue, byScopeType[i][1])>>])>>])>> >>)
        ELSE userMePatch(notificationType,
                 fromEntries([i \in 1..Len(providerList) |->
                                 <<providerList[i], fallbackValue>>]))

\* providerList.map(provider => [provider, value]) as an object
allSetTo(providerList, value) ==
    fromEntries([i \in 1..Len(providerList) |-> <<providerList[i], value>>])

\* the patch with updatedNotificationSettings[type][parentKey] assigned
withParents(updated, notificationType, byParentId) ==
    Put(updated, notificationType,
        Put(GetOr(updated, notificationType), getParentKey(notificationType),
            byParentId))

\* mutant: no provider is assumed when none is active
getStateToPutForDefaultNoEmail(notificationType, notificationSettings, changedData, parentIds) ==
    LET newValue == Values(changedData)[1]
        providerList == getCurrentProviders(notificationType, notificationSettings)
        updated == userMePatch(notificationType, allSetTo(providerList, newValue))
    IN  IF newValue = "never"
        THEN withParents(updated, notificationType,
                 fromEntries([i \in 1..Len(parentIds) |->
                                 <<parentIds[i], allSetTo(providerList, "default")>>]))
        ELSE updated

\* mutant: the parents get the new value, not "default"
getStateToPutForDefaultParentsNever(notificationType, notificationSettings, changedData, parentIds) ==
    LET newValue == Values(changedData)[1]
        current == getCurrentProviders(notificationType, notificationSettings)
        providerList == IF Len(current) = 0 THEN <<"email">> ELSE current
        updated == userMePatch(notificationType, allSetTo(providerList, newValue))
    IN  IF newValue = "never"
        THEN withParents(updated, notificationType,
                 fromEntries([i \in 1..Len(parentIds) |->
                                 <<parentIds[i], allSetTo(providerList, newValue)>>]))
        ELSE updated

\* mutant: the user entry of the patch is keyed as the tree's user entry is
getStateToPutForDefaultKeepsUserId(notificationType, notificationSettings, changedData, parentIds) ==
    LET newValue == Values(changedData)[1]
        current == getCurrentProviders(notificationType, notificationSettings)
        providerList == IF Len(current) = 0 THEN <<"email">> ELSE current
        user == GetOr(GetOr(notificationSettings, notificationType), "user")
        userId == IF user = <<>> THEN "me" ELSE user[Len(user)][1]
        updated == set(<<>>, <<notificationType, "user", userId>>,
                       allSetTo(providerList, newValue))
    IN  IF newValue = "never"
        THEN withParents(updated, notificationType,
                 fromEntries([i \in 1..Len(parentIds) |->
                                 <<parentIds[i], allSetTo(providerList, "default")>>]))
        ELSE updated

getStateToPutForDefault(notificationType, notificationSettings, changedData, parentIds) ==
    LET newValue == Values(changedData)[1]
        current == getCurrentProviders(notificationType, notificationSettings)
        providerList == IF Len(current) = 0 THEN <<"email">> ELSE current
        updated == userMePatch(notificationType, allSetTo(providerList, newValue))
    IN  IF newValue = "never"
        THEN withParents(updated, notificationType,
                 fromEntries([i \in 1..Len(parentIds) |->
                                 <<parentIds[i], allSetTo(providerList, "default")>>]))
        ELSE updated

\* mutant: email is assumed when no provider is active, as in the default patch
getStateToPutForParentWithEmail(notificationType, notificationSettings, changedData, parentId) ==
    LET current == getCurrentProviders(notificationType, notificationSettings)
        providerList == IF Len(current) = 0 THEN <<"email">> ELSE current
        newValue == Values(changedData)[1]
    IN  fromEntries(<< <<notificationType,
            fromEntries(<< <<getParentKey(notificationType),
                fromEntries(<< <<parentId, allSetTo(providerList, newValue)>> >>)>> >>)>> >>)

getStateToPutForParent(notificationType, notificationSettings, changedData, parentId) ==
    LET providerList == getCurrentProviders(notificationType, notificationSettings)
        newValue == Values(changedData)[1]
    IN  fromEntries(<< <<notificationType,
            fromEntries(<< <<getParentKey(notificationType),
                fromEntries(<< <<parentId, allSetTo(providerList, newValue)>> >>)>> >>)>> >>)

(* ------------------------------ inputs -------------------------------- *)

\* the known providers and one the module does not know
Providers == {"email", "slack", "msteams"}

Levels == {"default", "never", "always", "subscribe_only", "committed_only"}

ScopeTypes == {"user", "project", "organization"}

\* a project-grouped type, an organization-grouped one, and one without fallback
Types == {"alerts", "deploy", "quota"}

\* provider mappings of at most n entries, in every key order
Mappings(n) ==
    {m \in SeqsUpTo(Providers \X Levels, n) :
        \A i, j \in 1..Len(m) : m[i][1] = m[j][1] => i = j}

\* the (scopeType, scopeId) places of a tree: the user under "me" and under
\* a user id, one project, one organization
ScopePaths ==
    {<<"user", "me">>, <<"user", "7">>, <<"project", "1">>, <<"organization", "1">>}

\* what a tree is built from, one row after the other: a row of five puts
\* one provider's level at a path, a shorter row creates the (empty) object
\* at a type, a scope type or a path
RowsOf(types, paths, levels) ==
    {<<t, sp[1], sp[2], p, l>> :
        t \in types, sp \in paths, p \in {"email", "slack"}, l \in levels}
    \cup {<<t, sp[1], sp[2]>> : t \in types, sp \in paths}
    \cup {<<t, sp[1]>> : t \in types, sp \in paths}
    \cup {<<t>> : t \in types}

RECURSIVE HasPath(_, _)
HasPath(tree, path) ==
    \/ path = <<>>
    \/ Has(tree, path[1]) /\ HasPath(GetOr(tree, path[1]), Tail(path))

RECURSIVE At(_, _)
At(tree, path) == IF path = <<>> THEN tree ELSE At(GetOr(tree, path[1]), Tail(path))

AddRow(tree, row) ==
    IF Len(row) = 5
    THEN set(tree, SubSeq(row, 1, 3), Put(At(tree, SubSeq(row, 1, 3)), row[4], row[5]))
    ELSE IF HasPath(tree, row) THEN tree ELSE set(tree, row, <<>>)

RECURSIVE TreeOf(_)
TreeOf(rows) ==
    IF rows = <<>> THEN <<>>
    ELSE AddRow(TreeOf(SubSeq(rows, 1, Len(rows) - 1)), rows[Len(rows)])

\* the rows of the trees asked about type: rows of that type, and one row
\* for each other type
TreeRows(type) ==
    RowsOf({type}, ScopePaths, Levels)
    \cup {<<t, "user", "me", "email", "always">> : t \in Types \ {type}}

\* the rows the trees of a merge are built from, each with the number of
\* the tree it goes to
MergeRows ==
    {row \in RowsOf({"alerts", "deploy"}, {<<"user", "me">>, <<"project", "1">>},
                    {"always", "never"}) : Len(row) # 2}

RECURSIVE rowsOfObject(_, _)
rowsOfObject(tagged, k) ==
    IF tagged = <<>> THEN <<>>
    ELSE (IF tagged[1][1] = k THEN <<tagged[1][2]>> ELSE <<>>)
         \o rowsOfObject(Tail(tagged), k)

\* the n trees built from rows that each name the tree they go to
ObjectsOf(n, tagged) == [k \in 1..n |-> TreeOf(rowsOfObject(tagged, k))]

(* ------------------------------ actions ------------------------------- *)

NoCall ==
    /\ op = "none"
    /\ result = <<>>
    /\ thrown = ""

\* the arguments only the patch builders and the string helpers take
NoMoreArgs ==
    /\ inChangedData = <<>>
    /\ inParentIds = <<>>
    /\ inParentId = ""
    /\ inChoices = <<>>
    /\ inKey = ""

\* no editor and no landing page
NoViews ==
    /\ state = <<>>
    /\ now = 0
    /\ timers = <<>>
    /\ requests = <<>>
    /\ sent = <<>>
    /\ lastRun = <<>>
    /\ inLanding = <<>>

\* the utility functions touch no component
ViewsUnchanged == UNCHANGED <<state, now, timers, requests, sent, lastRun, inLanding>>

\* the arguments of a call stay as they were passed
ArgsUnchanged ==
    UNCHANGED <<inType, inSettings, inObjects, inData, inProviderList,
                inFallbackValue, inScopeType, inChangedData, inParentIds,
                inParentId, inChoices, inKey>>

InitBackfill ==
    /\ NoCall
    /\ inType = ""
    /\ inSettings = <<>>
    /\ inObjects = <<>>
    /\ inData \in Mappings(MaxData)
    /\ inProviderList \in SeqsUpTo(Providers, MaxList)
    /\ inFallbackValue \in {getFallBackValue(t) : t \in Types} \cup {"never"}
    /\ inScopeType \in ScopeTypes
    /\ NoMoreArgs
    /\ NoViews

Backfill ==
    /\ op = "none"
    /\ op' = "backfillMissingProvidersWithFallback"
    /\ result' = backfillMissingProvidersWithFallback(
                      inData, inProviderList, inFallbackValue, inScopeType)
    /\ thrown' = ""
    /\ ArgsUnchanged
    /\ ViewsUnchanged

NextBackfill == Backfill

SpecBackfill == InitBackfill /\ [][NextBackfill]_vars

InitMerge ==
    /\ NoCall
    /\ inType = ""
    /\ inSettings = <<>>
    /\ \E n \in 0..MaxObjects :
           \E tagged \in SeqsUpTo((1..n) \X MergeRows, MaxMergeRows) :
               inObjects = ObjectsOf(n, tagged)
    /\ inData = <<>>
    /\ inProviderList = <<>>
    /\ inFallbackValue = ""
    /\ inScopeType = ""
    /\ NoMoreArgs
    /\ NoViews

Merge ==
    /\ op = "none"
    /\ op' = "mergeNotificationSettings"
    /\ result' = mergeNotificationSettings(inObjects)
    /\ thrown' = ""
    /\ ArgsUnchanged
    /\ ViewsUnchanged

NextMerge == Merge

SpecMerge == InitMerge /\ [][NextMerge]_vars

Init ==
    /\ NoCall
    /\ inType \in Types
    /\ \E rows \in SeqsUpTo(TreeRows(inType), MaxRows) : inSettings = TreeOf(rows)
    /\ inObjects = <<>>
    /\ inData = <<>>
    /\ inProviderList = <<>>
    /\ inFallbackValue = ""
    /\ inScopeType = ""
    /\ NoMoreArgs
    /\ NoViews

GetUserDefaultValues ==
    /\ op = "none"
    /\ op' = "getUserDefaultValues"
    /\ result' = getUserDefaultValues(inType, inSettings)
    /\ thrown' = ""
    /\ ArgsUnchanged
    /\ ViewsUnchanged

GetCurrentProviders ==
    /\ op = "none"
    /\ op' = "getCurrentProviders"
    /\ result' = getCurrentProviders(inType, inSettings)
    /\ thrown' = ""
    /\ ArgsUnchanged
    /\ ViewsUnchanged

DecideDefault ==
    /\ op = "none"
    /\ op' = "decideDefault"
    /\ result' = decideDefault(inType, inSettings)
    /\ thrown' = ""
    /\ ArgsUnchanged
    /\ ViewsUnchanged

IsEverythingDisabled ==
    /\ op = "none"
    /\ op' = "isEverythingDisabled"
    /\ result' = isEverythingDisabled(inType, inSettings)
    /\ thrown' = ""
    /\ ArgsUnchanged
    /\ ViewsUnchanged

Next ==
    \/ GetUserDefaultValues
    \/ GetCurrentProviders
    \/ DecideDefault
    \/ IsEverythingDisabled

Spec == Init /\ [][Next]_vars

(* ------------------------ patch builders: calls ----------------------- *)

\* a project-grouped type with a fallback value, and an organization-grouped
\* type without one
PatchTypes == {"alerts", "quota"}

\* the rows of the trees the patch builders are given for type: two user
\* entries and one project entry, and one row of another type
PatchRows(type) ==
    RowsOf({type}, {<<"user", "me">>, <<"user", "7">>, <<"project", "1">>},
           {"never", "subscribe_only"})
    \cup {<<"deploy", "user", "me", "email", "always">>}

\* changedData.provider of the provider form
ProviderStrings ==
    {<<"">>, <<"email">>, <<"slack">>, <<"email", "slack">>, <<"slack", "email">>,
     <<"msteams">>}

\* the new value of the default and parent forms
NewValues == {"never", "always", "default"}

ParentIdLists == {<<>>, <<"1">>, <<"2", "1">>}

InitPatch ==
    /\ NoCall
    /\ inType \in PatchTypes
    /\ \E rows \in SeqsUpTo(PatchRows(inType), MaxRows) : inSettings = TreeOf(rows)
    /\ inObjects = <<>>
    /\ inData = <<>>
    /\ inProviderList = <<>>
    /\ inFallbackValue = ""
    /\ inScopeType = ""
    /\ inChoices = <<>>
    /\ inKey = ""
    /\ NoViews
    /\ \/ /\ \E string \in ProviderStrings :
                 inChangedData = << <<"provider", string>> >>
          /\ inParentIds = <<>>
          /\ inParentId = ""
       \/ /\ \E newValue \in NewValues : inChangedData = << <<inType, newValue>> >>
          /\ inParentIds \in ParentIdLists
          /\ inParentId = ""
       \/ /\ \E newValue \in NewValues : inChangedData = << <<inType, newValue>> >>
          /\ inParentIds = <<>>
          /\ inParentId \in {"1", "2"}

GetStateToPutForProvider ==
    /\ op = "none"
    /\ Has(inChangedData, "provider")
    /\ op' = "getStateToPutForProvider"
    /\ IF getStateToPutForProviderThrows(inType, inSettings, inChangedData)
       THEN thrown' = "TypeError" /\ result' = <<>>
       ELSE /\ thrown' = ""
            /\ result' = getStateToPutForProvider(inType, inSettings, inChangedData)
    /\ ArgsUnchanged
    /\ ViewsUnchanged

\* the provider form is saved: the patch is built and merged into the tree,
\* and the providers of the merged tree are read
ProviderChangeRoundTrip ==
    /\ op = "none"
    /\ Has(inChangedData, "provider")
    /\ op' = "providerChangeRoundTrip"
    /\ IF getStateToPutForProviderThrows(inType, inSettings, inChangedData)
       THEN thrown' = "TypeError" /\ result' = <<>>
       ELSE /\ thrown' = ""
            /\ result' = getCurrentProviders(inType,
                   mergeNotificationSettings(
                       <<inSettings,
                         getStateToPutForProvider(inType, inSettings, inChangedData)>>))
    /\ ArgsUnchanged
    /\ ViewsUnchanged

GetStateToPutForDefault ==
    /\ op = "none"
    /\ ~Has(inChangedData, "provider")
    /\ inParentId = ""
    /\ op' = "getStateToPutForDefault"
    /\ result' = getStateToPutForDefault(inType, inSettings, inChangedData, inParentIds)
    /\ thrown' = ""
    /\ ArgsUnchanged
    /\ ViewsUnchanged

GetStateToPutForParent ==
    /\ op = "none"
    /\ ~Has(inChangedData, "provider")
    /\ inParentId # ""
    /\ op' = "getStateToPutForParent"
    /\ result' = getStateToPutForParent(inType, inSettings, inChangedData, inParentId)
    /\ thrown' = ""
    /\ ArgsUnchanged
    /\ ViewsUnchanged

NextPatch ==
    \/ GetStateToPutForProvider
    \/ ProviderChangeRoundTrip
    \/ GetStateToPutForDefault
    \/ GetStateToPutForParent

SpecPatch == InitPatch /\ [][NextPatch]_vars

(* ------------------------ string helpers: calls ----------------------- *)

\* the number of rows of a choice list
MaxChoices == 2

\* the rows of a choice list: [key, label]
ChoiceRows == {"always", "never"} \X {"On", "Off"}

InitStrings ==
    /\ NoCall
    /\ inType = ""
    /\ inSettings = <<>>
    /\ inObjects = <<>>
    /\ inData = <<>>
    /\ inProviderList \in SeqsUpTo(Providers, MaxList)
    /\ inFallbackValue = ""
    /\ inScopeType = ""
    /\ inChangedData = <<>>
    /\ inParentIds = <<>>
    /\ inParentId = ""
    /\ \/ inChoices = <<>>
       \/ \E rows \in SeqsUpTo(ChoiceRows, MaxChoices) : inChoices = <<rows>>
    /\ inKey \in {"always", "never", "default"}
    /\ NoViews

ProviderListToString ==
    /\ op = "none"
    /\ op' = "providerListToString"
    /\ result' = providerListToString(inProviderList)
    /\ inProviderList' = providersAfterProviderListToString(inProviderList)
    /\ thrown' = ""
    /\ UNCHANGED <<inType, inSettings, inObjects, inData, inFallbackValue,
                   inScopeType, inChangedData, inParentIds, inParentId,
                   inChoices, inKey>>
    /\ ViewsUnchanged

GetChoiceString ==
    /\ op = "none"
    /\ op' = "getChoiceString"
    /\ IF getChoiceStringThrows(inChoices, inKey)
       THEN thrown' = "Error" /\ result' = <<>>
       ELSE thrown' = "" /\ result' = getChoiceString(inChoices, inKey)
    /\ ArgsUnchanged
    /\ ViewsUnchanged

NextStrings ==
    \/ ProviderListToString
    \/ GetChoiceString

SpecStrings == InitStrings /\ [][NextStrings]_vars

(* ---------------------- saved-queries landing page -------------------- *)

\* A string of the landing page is the sequence of its characters; a query
\* parameter is <<>> when the URL does not have it and <<string>> when it has.

\* the most prebuilt queries getPrebuiltQueries returns
MaxViews == 9

\* the lower-case form of the upper-case characters in use
LowerOf == ("A" :> "a") @@ ("B" :> "b")

\* mutant: the case of the characters is kept
toLowerCaseKeepsCase(string) == string

\* String.prototype.toLowerCase
toLowerCase(string) ==
    [i \in 1..Len(string) |->
        IF string[i] \in DOMAIN LowerOf THEN LowerOf[string[i]] ELSE string[i]]

\* String.prototype.trim
RECURSIVE trim(_)
trim(string) ==
    IF string = <<>> THEN <<>>
    ELSE IF Head(string) = " " THEN trim(Tail(string))
    ELSE IF string[Len(string)] = " " THEN trim(SubSeq(string, 1, Len(string) - 1))
    ELSE string

\* String.prototype.includes
includesString(string, searchString) ==
    \E i \in 0..(Len(string) - Len(searchString)) :
        SubSeq(string, i + 1, i + Len(searchString)) = searchString

\* decodeScalar(value, fallback) of a query parameter (otherwise: the fallback)
decodeScalar(value, otherwise) == IF value = <<>> THEN otherwise ELSE value[1]

\* Math.max
max(a, b) == IF a >= b THEN a ELSE b

getSavedQuerySearchQuery(location) == trim(decodeScalar(location.query, <<>>))

\* !cursor: the URL has no cursor, or an empty one
noCursor(location) == decodeScalar(location.cursor, <<>>) = <<>>

\* views.reduce(...): the prebuilt queries whose name, in lower case,
\* includes the needle
RECURSIVE numOfPrebuiltQueries(_, _)
numOfPrebuiltQueries(views, needleSearch) ==
    IF views = <<>> THEN 0
    ELSE numOfPrebuiltQueries(SubSeq(views, 1, Len(views) - 1), needleSearch)
         + (IF /\ views[Len(views)] # <<>>
               /\ includesString(toLowerCase(views[Len(views)]), needleSearch)
            THEN 1 ELSE 0)

\* perPage of getEndpoints, as sent in per_page
perPage(views, location, canRenderPrebuilt) ==
    LET searchQuery == getSavedQuerySearchQuery(location)
    IN  IF noCursor(location) /\ canRenderPrebuilt
        THEN IF Len(searchQuery) > 0
             THEN max(1, 9 - numOfPrebuiltQueries(views, toLowerCase(searchQuery)))
             ELSE max(1, 9 - Len(views))
        ELSE 9

\* the names of the prebuilt queries
ViewNames == {<<"A", "b">>, <<"b">>}

\* location.query.query
SearchTexts == {<<>>, << <<" ">> >>, << <<"B", " ">> >>, << <<"a", "b">> >>, << <<"c">> >>}

\* location.query.cursor
Cursors == {<<>>, << <<>> >>, << <<"0", ":", "9">> >>}

InitLanding ==
    /\ NoCall
    /\ inType = ""
    /\ inSettings = <<>>
    /\ inObjects = <<>>
    /\ inData = <<>>
    /\ inProviderList = <<>>
    /\ inFallbackValue = ""
    /\ inScopeType = ""
    /\ NoMoreArgs
    /\ state = <<>>
    /\ now = 0
    /\ timers = <<>>
    /\ requests = <<>>
    /\ sent = <<>>
    /\ lastRun = <<>>
    /\ \E views \in SeqsUpTo(ViewNames, MaxViews), query \in SearchTexts,
          cursor \in Cursors, renderPrebuilt \in BOOLEAN :
           inLanding = [views |-> views,
                        location |-> [query |-> query, cursor |-> cursor],
                        renderPrebuilt |-> renderPrebuilt]

GetEndpoints ==
    /\ op = "none"
    /\ op' = "getEndpoints"
    /\ result' = perPage(inLanding.views, inLanding.location, inLanding.renderPrebuilt)
    /\ thrown' = ""
    /\ ArgsUnchanged
    /\ ViewsUnchanged

NextLanding == GetEndpoints

SpecLanding == InitLanding /\ [][NextLanding]_vars

(* --------------------------- issue rule editor ------------------------ *)

\* A field of this.state that may be null is <<>> when it is null and
\* <<value>> when it holds a value.  A rule, a detailedError and a row of a
\* rule are JavaScript objects.  Time is in milliseconds.

\* most save requests handleSubmit sends in one run of the editor
MaxSaves == 1
\* most rule-task requests pollHandler sends in one run of the editor
MaxPolls == 2

POLLING_MAX_TIME_LIMIT == 3 * 60000

ALL_ENVIRONMENTS_KEY == "__all_environments__"

defaultRule ==
    << <<"actionMatch", "all">>, <<"filterMatch", "all">>, <<"actions", <<>>>>,
       <<"conditions", <<>>>>, <<"filters", <<>>>>, <<"name", "">>,
       <<"frequency", 30>>, <<"environment", ALL_ENVIRONMENTS_KEY>> >>

\* mutant: the key stays
omitNothing(object, key) == object

\* lodash omit(object, key), and delete object[key]
omit(object, key) == SelectSeq(object, LAMBDA entry : entry[1] # key)

isSavedAlertRule(rule) == rule # <<>> /\ Has(rule[1], "id")

\* the route of the rules list
RulesRoute == "/organizations/:orgId/alerts/rules/"

\* what a handler did besides setState, when it did nothing
Quiet(handler) ==
    [handler |-> handler, at |-> now, pre |-> state, timersBefore |-> timers,
     requestsBefore |-> requests, shown |-> <<>>, pushed |-> <<>>, answer |-> <<>>]

\* a request of the two kinds the editor sends
SaveRequest(isNew, data, ruleBefore) ==
    [kind |-> "save", isNew |-> isNew, data |-> data, ruleBefore |-> ruleBefore,
     quitTime |-> 0, start |-> 0, uuid |-> <<>>]

PollRequest(quitTime, start, uuid, origRule) ==
    [kind |-> "poll", isNew |-> ~isSavedAlertRule(origRule), data |-> <<>>,
     ruleBefore |-> origRule, quitTime |-> quitTime, start |-> start, uuid |-> uuid]

\* the sequence without its i-th element
RemoveAt(array, i) == SubSeq(array, 1, i - 1) \o SubSeq(array, i + 1, Len(array))

\* this.setState({detailedError: null, loading: false, rule}) of handleRuleSuccess
handleRuleSuccess(prevState, rule) ==
    [prevState EXCEPT !.detailedError = <<>>, !.loading = FALSE, !.rule = <<rule>>]

\* the message handleRuleSuccess shows
successMessage(isNew) ==
    <<"success", IF isNew THEN "Created alert rule" ELSE "Updated alert rule">>

\* the message handleRuleSaveFailure shows
failureMessage == <<"error", "An error occurred">>

timeoutMessage == <<"error", "Looking for that channel took too long :(">>

\* mutant: the quit time is counted from the poll that schedules the next one
pollTimerExtended(start, quitTime, at) ==
    [due |-> at + 1000, quitTime |-> at + POLLING_MAX_TIME_LIMIT, start |-> start]

\* mutant: the next poll comes two seconds later
pollTimerTwoSeconds(start, quitTime, at) ==
    [due |-> at + 2000, quitTime |-> quitTime, start |-> start]

\* setTimeout(() => this.pollHandler(quitTime), 1000), called at time at by
\* the chain fetchStatus started at time start
pollTimer(start, quitTime, at) ==
    [due |-> at + 1000, quitTime |-> quitTime, start |-> start]

\* mutant: the quit time is one minute after fetchStatus is called
fetchStatusOneMinute(at) == pollTimer(at, at + 60000, at)

\* the timer fetchStatus sets
fetchStatus(at) == pollTimer(at, at + POLLING_MAX_TIME_LIMIT, at)

(* ---------------------- issue rule editor: saving --------------------- *)

\* a rule loaded from the API, and the rule the API answers a save with
SavedRule ==
    << <<"actionMatch", "all">>, <<"filterMatch", "all">>, <<"actions", <<>>>>,
       <<"conditions", <<>>>>, <<"filters", <<>>>>, <<"name", "mine">>,
       <<"frequency", 30>>, <<"environment", "production">>, <<"id", "1">> >>

ServerRule ==
    << <<"actionMatch", "all">>, <<"filterMatch", "all">>, <<"actions", <<>>>>,
       <<"conditions", <<>>>>, <<"filters", <<>>>>, <<"name", "saved">>,
       <<"frequency", 30>>, <<"id", "2">> >>

\* the errors the API answers a refused save with
NameError == << <<"name", <<"Field Required">>>> >>

\* the answers of the rule-task endpoint
RuleTaskResponses ==
    [status : {"pending", "failed", "success"},
     rule : {<<>>, <<ServerRule>>},
     error : {<<>>, <<"channel not found">>}]

InitEditor ==
    /\ NoCall
    /\ inType = ""
    /\ inSettings = <<>>
    /\ inObjects = <<>>
    /\ inData = <<>>
    /\ inProviderList = <<>>
    /\ inFallbackValue = ""
    /\ inScopeType = ""
    /\ NoMoreArgs
    /\ inLanding = <<>>
    /\ \E rule \in {<<>>, <<defaultRule>>, <<SavedRule>>},
          detailedError \in {<<>>, <<NameError>>} :
           state = [loading |-> FALSE, detailedError |-> detailedError, rule |-> rule,
                    uuid |-> <<>>, configs |-> <<>>, environments |-> <<>>]
    /\ now = 0
    /\ timers = <<>>
    /\ requests = <<>>
    /\ sent = [saves |-> 0, polls |-> 0]
    /\ lastRun = Quiet("none")

UtilsUnchanged ==
    /\ UNCHANGED <<op, result, thrown, inLanding>>
    /\ ArgsUnchanged

\* handleSubmit up to its await
HandleSubmit ==
    /\ sent.saves < MaxSaves
    /\ LET rule == state.rule
           isNew == ~isSavedAlertRule(rule)
           sentRule == IF /\ rule # <<>>
                          /\ Has(rule[1], "environment")
                          /\ GetOr(rule[1], "environment") = ALL_ENVIRONMENTS_KEY
                       THEN <<omit(rule[1], "environment")>>
                       ELSE rule
           request == SaveRequest(isNew, sentRule, rule)
       IN  /\ state' = [state EXCEPT !.rule = sentRule]
           /\ requests' = Append(requests, request)
           /\ lastRun' = [Quiet("handleSubmit") EXCEPT
                             !.shown = << <<"loading", "">> >>]
    /\ sent' = [sent EXCEPT !.saves = @ + 1]
    /\ UNCHANGED <<now, timers>>
    /\ UtilsUnchanged

\* handleSubmit after its await, the request having succeeded
SaveSucceeds ==
    \E i \in DOMAIN requests, xhr \in {<<>>, <<200>>, <<202>>} :
        /\ requests[i].kind = "save"
        /\ requests' = RemoveAt(requests, i)
        /\ IF xhr # <<>> /\ xhr[1] = 202
           THEN \E uuid \in {"u1", "u2"} :
                   /\ state' = [state EXCEPT !.detailedError = <<>>, !.loading = TRUE,
                                             !.uuid = <<uuid>>]
                   /\ timers' = Append(timers, fetchStatus(now))
                   /\ lastRun' = [Quiet("saveSucceeds") EXCEPT
                          !.shown = << <<"loading", "Looking through all your channels...">> >>,
                          !.answer = [xhr |-> xhr, request |-> requests[i],
                                      resp |-> << <<"uuid", uuid>> >>]]
           ELSE /\ state' = handleRuleSuccess(state, ServerRule)
                /\ timers' = timers
                /\ lastRun' = [Quiet("saveSucceeds") EXCEPT
                       !.shown = <<successMessage(requests[i].isNew)>>,
                       !.pushed = <<RulesRoute>>,
                       !.answer = [xhr |-> xhr, request |-> requests[i],
                                   resp |-> ServerRule]]
    /\ UNCHANGED <<now, sent>>
    /\ UtilsUnchanged

\* handleSubmit after its await, the request having failed
SaveFails ==
    \E i \in DOMAIN requests, responseJSON \in {<<>>, <<NameError>>} :
        /\ requests[i].kind = "save"
        /\ requests' = RemoveAt(requests, i)
        /\ state' = [state EXCEPT
               !.detailedError = IF responseJSON # <<>> THEN responseJSON
                                 ELSE << << <<"__all__", "Unknown error">> >> >>,
               !.loading = FALSE]
        /\ lastRun' = [Quiet("saveFails") EXCEPT
               !.shown = <<failureMessage>>,
               !.answer = [responseJSON |-> responseJSON, request |-> requests[i]]]
        /\ UNCHANGED <<now, timers, sent>>
        /\ UtilsUnchanged

\* a timer goes off: pollHandler up to its await
PollHandler ==
    \E i \in DOMAIN timers :
        /\ timers[i].due <= now
        /\ timers' = RemoveAt(timers, i)
        /\ IF now > timers[i].quitTime
           THEN /\ state' = [state EXCEPT !.loading = FALSE]
                /\ UNCHANGED <<requests, sent>>
                /\ lastRun' = [Quiet("pollHandler") EXCEPT
                       !.shown = <<timeoutMessage>>,
                       !.answer = [timer |-> timers[i]]]
           ELSE LET request == PollRequest(timers[i].quitTime, timers[i].start,
                                           state.uuid, state.rule)
                IN  /\ sent.polls < MaxPolls
                    /\ requests' = Append(requests, request)
                    /\ sent' = [sent EXCEPT !.polls = @ + 1]
                    /\ lastRun' = [Quiet("pollHandler") EXCEPT
                           !.answer = [timer |-> timers[i]]]
                    /\ UNCHANGED state
        /\ UNCHANGED now
        /\ UtilsUnchanged

\* pollHandler after its await, the request having succeeded
PollSucceeds ==
    \E i \in DOMAIN requests, response \in RuleTaskResponses :
        /\ requests[i].kind = "poll"
        /\ requests' = RemoveAt(requests, i)
        /\ IF response.status = "pending"
           THEN LET timer == pollTimer(requests[i].start, requests[i].quitTime, now)
                IN  /\ timers' = Append(timers, timer)
                    /\ lastRun' = [Quiet("pollSucceeds") EXCEPT
                           !.answer = [response |-> response, request |-> requests[i]]]
                    /\ UNCHANGED state
           ELSE LET failed == response.status = "failed"
                    afterFailed ==
                        IF failed
                        THEN [state EXCEPT
                                 !.detailedError =
                                     << << <<"actions",
                                            <<IF response.error # <<>>
                                              THEN response.error[1]
                                              ELSE "An error occurred">> >> >> >>,
                                 !.loading = FALSE]
                        ELSE state
                IN  /\ state' = IF response.rule # <<>>
                                THEN handleRuleSuccess(afterFailed, response.rule[1])
                                ELSE afterFailed
                    /\ timers' = timers
                    /\ lastRun' = [Quiet("pollSucceeds") EXCEPT
                           !.shown = (IF failed THEN <<failureMessage>> ELSE <<>>)
                                     \o (IF response.rule # <<>>
                                         THEN <<successMessage(requests[i].isNew)>>
                                         ELSE <<>>),
                           !.pushed = IF response.rule # <<>> THEN <<RulesRoute>> ELSE <<>>,
                           !.answer = [response |-> response, request |-> requests[i]]]
        /\ UNCHANGED <<now, sent>>
        /\ UtilsUnchanged

\* pollHandler after its await, the request having failed
PollFails ==
    \E i \in DOMAIN requests :
        /\ requests[i].kind = "poll"
        /\ requests' = RemoveAt(requests, i)
        /\ state' = [state EXCEPT !.loading = FALSE]
        /\ lastRun' = [Quiet("pollFails") EXCEPT
               !.shown = <<failureMessage>>,
               !.answer = [request |-> requests[i]]]
        /\ UNCHANGED <<now, timers, sent>>
        /\ UtilsUnchanged

\* the instants at which a timer is due or a quit time is reached or passed
Instants ==
    UNION {{timers[i].due, timers[i].quitTime, timers[i].quitTime + 1} :
              i \in DOMAIN timers}
    \cup UNION {{requests[i].quitTime, requests[i].quitTime + 1} :
                   i \in {j \in DOMAIN requests : requests[j].kind = "poll"}}

\* time passes, up to the next instant at which something changes
Tick ==
    /\ \E t \in Instants : t > now /\ now' = t
    /\ UNCHANGED <<state, timers, requests, sent, lastRun>>
    /\ UtilsUnchanged

NextEditor ==
    \/ HandleSubmit
    \/ SaveSucceeds
    \/ SaveFails
    \/ PollHandler
    \/ PollSucceeds
    \/ PollFails
    \/ Tick

SpecEditor == InitEditor /\ [][NextEditor]_vars

(* ---------------------- issue rule editor: the form ------------------- *)

\* most rows in one list (conditions, filters, actions) of the rule
MaxRuleRows == 2

\* cloneDeep(prevState), then lodash set(clonedState, `rule[${key}]`, value):
\* a rule that is null becomes an object with that one key
setRule(prevState, key, value) ==
    [prevState EXCEPT
        !.rule = <<Put(IF prevState.rule = <<>> THEN <<>> ELSE prevState.rule[1],
                       key, value)>>]

\* mutant: every entry is removed
omitEverything(detailedError, prop) == <<>>

\* omit(prevState.detailedError, prop): an object also when detailedError is null
omitError(detailedError, prop) ==
    <<omit(IF detailedError = <<>> THEN <<>> ELSE detailedError[1], prop)>>

handleChange(prevState, prop, val) ==
    [setRule(prevState, prop, val) EXCEPT
        !.detailedError = omitError(prevState.detailedError, prop)]

\* formField?.initial ?? formField?.choices?.[0]?.[0], "" standing for undefined
initialOf(formField) ==
    IF Has(formField, "initial") THEN GetOr(formField, "initial")
    ELSE IF Has(formField, "choices") /\ GetOr(formField, "choices") # <<>>
    THEN GetOr(formField, "choices")[1][1]
    ELSE ""

getInitialValue(configs, type, id) ==
    LET templates == IF configs = <<>> THEN <<>> ELSE GetOr(configs[1], type)
        found == SelectSeq(templates, LAMBDA c : GetOr(c, "id") = id)
    IN  IF found = <<>> \/ ~Has(found[1], "formFields") THEN <<>>
        ELSE LET formFields == GetOr(found[1], "formFields")
             IN  fromEntries(
                     SelectSeq([i \in 1..Len(formFields) |->
                                   <<formFields[i][1], initialOf(formFields[i][2])>>],
                               LAMBDA entry : entry[2] # ""))

\* prevState.rule ? prevState.rule[type] : []
typeList(prevState, type) ==
    IF prevState.rule = <<>> THEN <<>> ELSE GetOr(prevState.rule[1], type)

handleAddRow(prevState, type, id) ==
    LET newRule == Put(getInitialValue(prevState.configs, type, id), "id", id)
    IN  setRule(prevState, type, Append(typeList(prevState, type), newRule))

\* mutant: the rows from start on are all removed
spliceToTheEnd(array, start, deleteCount) ==
    SubSeq(array, 1, IF start > Len(array) THEN Len(array) ELSE start)

\* what array.splice(start, deleteCount) leaves in the array, start >= 0
\* a start beyond the end counts as the end
splice(array, start, deleteCount) ==
    LET from == IF start > Len(array) THEN Len(array) ELSE start
    IN  SubSeq(array, 1, from) \o SubSeq(array, from + deleteCount + 1, Len(array))

handleDeleteRow(prevState, type, idx) ==
    setRule(prevState, type,
            IF prevState.rule = <<>> THEN <<>>
            ELSE splice(typeList(prevState, type), idx, 1))

\* the templates of the rules/configuration endpoint
Configs ==
    << <<"actions",
         << << <<"id", "slack">>,
               <<"formFields",
                 << <<"workspace", << <<"choices", << <<"w1", "Workspace 1">> >> >> >> >>,
                    <<"channel", << <<"initial", "">> >> >>,
                    <<"tags", << <<"initial", "level">>,
                                 <<"choices", << <<"other", "Other">> >> >> >> >>,
                    <<"notes", <<>> >> >> >> >>,
            << <<"id", "mail">> >> >> >>,
       <<"filters",
         << << <<"id", "age">>,
               <<"formFields", << <<"value", << <<"initial", "10">> >> >> >> >> >> >> >>,
       <<"conditions", << << <<"id", "first_seen">> >> >> >> >>

\* the ids of the templates of a list
TemplateIds(type) ==
    CASE type = "actions" -> {"slack", "mail"}
      [] type = "filters" -> {"age"}
      [] OTHER -> {"first_seen"}

\* the fields handleChange is called for, with the values it is given
Changes ==
    {<<"name", "mine">>, <<"owner", "team:1">>}

\* the errors of a refused save
FormError ==
    << <<"name", <<"Field Required">>>>, <<"actions", <<"Required">>>> >>

\* a rule loaded from the rule endpoint
LoadedRule ==
    << <<"actionMatch", "all">>, <<"filterMatch", "all">>,
       <<"actions", << << <<"id", "mail">> >>, << <<"id", "slack">> >> >> >>,
       <<"conditions", <<>>>>, <<"filters", <<>>>>, <<"name", "saved">>,
       <<"frequency", 30>>, <<"environment", "staging">>, <<"id", "1">> >>

\* the editor once its endpoints are loaded: untouched, with a refused save
\* behind it, and polling for a rule task
FormStates ==
    {[loading |-> FALSE, detailedError |-> <<>>, rule |-> <<rule>>, uuid |-> <<>>,
      configs |-> <<Configs>>, environments |-> <<>>] : rule \in {defaultRule, LoadedRule}}
    \cup
    {[loading |-> FALSE, detailedError |-> <<FormError>>, rule |-> <<rule>>,
      uuid |-> <<>>, configs |-> <<>>, environments |-> <<>>] :
         rule \in {defaultRule, LoadedRule}}
    \cup
    {[loading |-> TRUE, detailedError |-> <<NameError>>, rule |-> <<rule>>,
      uuid |-> <<"u1">>, configs |-> <<Configs>>, environments |-> <<>>] :
         rule \in {defaultRule, LoadedRule}}

InitForm ==
    /\ NoCall
    /\ inType = ""
    /\ inSettings = <<>>
    /\ inObjects = <<>>
    /\ inData = <<>>
    /\ inProviderList = <<>>
    /\ inFallbackValue = ""
    /\ inScopeType = ""
    /\ NoMoreArgs
    /\ inLanding = <<>>
    /\ state \in FormStates
    /\ now = 0
    /\ timers = <<>>
    /\ requests = <<>>
    /\ sent = [saves |-> 0, polls |-> 0]
    /\ lastRun = Quiet("none")

FormFrame ==
    /\ UNCHANGED <<now, timers, requests, sent>>
    /\ UtilsUnchanged

HandleChange ==
    \E change \in Changes :
        /\ state' = handleChange(state, change[1], change[2])
        /\ lastRun' = [Quiet("handleChange") EXCEPT
               !.answer = [prop |-> change[1], val |-> change[2]]]
        /\ FormFrame

HandleAddRow ==
    \E type \in {"conditions", "filters", "actions"} :
        \E id \in TemplateIds(type) :
            /\ Len(typeList(state, type)) < MaxRuleRows
            /\ state' = handleAddRow(state, type, id)
            /\ lastRun' = [Quiet("handleAddRow") EXCEPT
                   !.answer = [type |-> type, id |-> id]]
            /\ FormFrame

HandleDeleteRow ==
    \E type \in {"conditions", "filters", "actions"}, idx \in 0..MaxRuleRows :
        /\ state' = handleDeleteRow(state, type, idx)
        /\ lastRun' = [Quiet("handleDeleteRow") EXCEPT
               !.answer = [type |-> type, idx |-> idx]]
        /\ FormFrame

NextForm ==
    \/ HandleChange
    \/ HandleAddRow
    \/ HandleDeleteRow

SpecForm == InitForm /\ [][NextForm]_vars

(* ------------------------------ claims -------------------------------- *)

KnownProviders == {"email", "slack"}

Backfilled == op = "backfillMissingProvidersWithFallback"

\* C1: the mapping backfillMissingProvidersWithFallback returns has exactly the
\* known providers email and slack as keys, each once, whatever keys the
\* partial mapping and the provider list hold.
C1_BackfillKeySet ==
    Backfilled =>
        /\ Len(result) = Cardinality(KnownProviders)
        /\ {result[i][1] : i \in 1..Len(result)} = KnownProviders

\* a call whose partial mapping and provider list both name an unknown provider
C1_Witness ==
    /\ Backfilled
    /\ Has(inData, "msteams")
    /\ includes(inProviderList, "msteams")
    /\ ~includes(inProviderList, "slack")

\* C2: the value given to the providers of the provider list (the effective
\* fallback) is the last value of the partial mapping that is not "never",
\* and the passed-in fallbackValue when there is no such value.
C2_EffectiveFallback ==
    Backfilled =>
        LET notNever == {i \in 1..Len(inData) : inData[i][2] # "never"}
            effective == IF notNever = {} THEN inFallbackValue
                         ELSE inData[CHOOSE i \in notNever :
                                        \A j \in notNever : j <= i][2]
        IN  /\ fallback(Values(inData), inFallbackValue) = effective
            /\ \A i \in 1..Len(result) :
                   includes(inProviderList, result[i][1]) => result[i][2] = effective

\* two values that are not "never" and differ: the later one is used
C2_Witness ==
    /\ Backfilled
    /\ Len(inData) = 2
    /\ inData[1][2] \notin {"never", inData[2][2], inFallbackValue}
    /\ inData[2][2] \notin {"never", inFallbackValue}
    /\ includes(inProviderList, "email")
    /\ Has(result, "email")
    /\ GetOr(result, "email") = inData[2][2]

\* C3: a known provider of the provider list gets the effective fallback, any
\* other known provider gets "never" for scopeType "user" and "default" for
\* any other scopeType; the value a provider had in the partial mapping is
\* not kept.
C3_BackfillValues ==
    Backfilled =>
        \A p \in KnownProviders :
            /\ Has(result, p)
            /\ GetOr(result, p) =
                   IF includes(inProviderList, p)
                   THEN fallback(Values(inData), inFallbackValue)
                   ELSE IF inScopeType = "user" THEN "never" ELSE "default"

\* email is listed and loses the value it had; slack is not listed, in a
\* parent scope
C3_Witness ==
    /\ Backfilled
    /\ inScopeType = "project"
    /\ includes(inProviderList, "email")
    /\ ~includes(inProviderList, "slack")
    /\ Has(inData, "email") /\ Has(inData, "slack")
    /\ GetOr(inData, "email") \notin {"never", GetOr(result, "email")}
    /\ GetOr(inData, "slack") # "default"
    /\ GetOr(result, "slack") = "default"

\* the (type, scopeType, scopeId) paths a tree holds
PathsOf(tree) ==
    UNION {UNION {{<<tree[i][1], tree[i][2][j][1], tree[i][2][j][2][k][1]>> :
                      k \in 1..Len(tree[i][2][j][2])} :
                  j \in 1..Len(tree[i][2])} :
           i \in 1..Len(tree)}

Merged == op = "mergeNotificationSettings"

\* C4: the paths of the merged tree are the paths of all input trees, and the
\* provider mapping at each path is the one of the last input tree that
\* holds the path, as a whole.
C4_MergeRightBiased ==
    Merged =>
        /\ PathsOf(result) = UNION {PathsOf(inObjects[k]) : k \in 1..Len(inObjects)}
        /\ \A path \in PathsOf(result) :
               LET holders == {k \in 1..Len(inObjects) : HasPath(inObjects[k], path)}
                   last == CHOOSE k \in holders : \A j \in holders : j <= k
               IN  At(result, path) = At(inObjects[last], path)

\* two trees hold the same path, the earlier one with a provider the later
\* one lacks: the provider does not survive
C4_Witness ==
    /\ Merged
    /\ Len(inObjects) = 2
    /\ \E path \in PathsOf(inObjects[1]) \cap PathsOf(inObjects[2]) :
           /\ Has(At(inObjects[1], path), "email")
           /\ ~Has(At(inObjects[2], path), "email")
           /\ At(inObjects[2], path) # <<>>
           /\ ~Has(At(result, path), "email")

\* the levels in their order, lowest first
LevelOrder == <<"default", "never", "always", "subscribe_only", "committed_only">>

Rank(level) == CHOOSE i \in 1..Len(LevelOrder) : LevelOrder[i] = level

\* the maximum of a non-empty set of levels
MaxLevel(S) == CHOOSE v \in S : \A w \in S : Rank(w) <= Rank(v)

\* the values of the user-scope provider mapping of the type asked about
UserValues ==
    LET userData == getUserDefaultValues(inType, inSettings)
    IN  {userData[i][2] : i \in 1..Len(userData)}

\* the user-scope entries the tree holds for the type asked about
UserEntries == GetOr(GetOr(inSettings, inType), "user")

\* every provider value of every scope id under a scope type of the type
ValuesUnder(scope) ==
    LET byId == GetOr(GetOr(inSettings, inType), scope)
    IN  UNION {{byId[i][2][k][2] : k \in 1..Len(byId[i][2])} : i \in 1..Len(byId)}

GroupingScope == IF inType \in {"alerts", "email", "workflow"} THEN "project" ELSE "organization"

\* C5: when the maximum level of the user-scope provider mapping is not
\* "never", decideDefault returns that maximum, whatever the project and
\* organization entries hold.
C5_UserOverrideWins ==
    op = "decideDefault" =>
        LET levels == UserValues \cap Levels
        IN  (levels # {} /\ MaxLevel(levels) # "never") => result = MaxLevel(levels)

\* a user entry whose maximum is above "never", below a parent-specific level
C5_Witness ==
    /\ op = "decideDefault"
    /\ UserEntries # <<>>
    /\ UserValues \cap {"always", "subscribe_only"} # {}
    /\ "committed_only" \in ValuesUnder(GroupingScope)
    /\ result \in {"always", "subscribe_only"}

\* C6: when the user-scope maximum is "never", decideDefault returns the
\* maximum level of the values under the grouping scope of the type only,
\* and "never" when that maximum is "default" or there is no such value.
C6_FallbackToParent ==
    op = "decideDefault" =>
        LET levels == UserValues \cap Levels
            parent == ValuesUnder(GroupingScope)
        IN  (levels # {} /\ MaxLevel(levels) = "never") =>
                result = IF parent = {} \/ MaxLevel(parent) = "default" THEN "never"
                         ELSE MaxLevel(parent)

\* the user entry says "never" and the grouping scope holds a higher level
C6_Witness ==
    /\ op = "decideDefault"
    /\ UserEntries # <<>>
    /\ UserValues = {"never"}
    /\ ValuesUnder(GroupingScope) \cap {"always", "subscribe_only", "committed_only"} # {}
    /\ result = MaxLevel(ValuesUnder(GroupingScope))

\* the tree holds no (scopeType, scopeId) path for the type asked about
NoDataForType == \A path \in PathsOf(inSettings) : path[1] # inType

\* C7 as stated: for a tree that holds no data for the type, such as
\* isEverythingDisabled("deploy", {}), everything is disabled.
C7_FullyMuted ==
    (op = "isEverythingDisabled" /\ NoDataForType) => result = TRUE

\* C7 as amended: for a tree that holds no data for the type,
\* isEverythingDisabled is false for the types with a fallback value (alerts,
\* deploy, workflow: the default mapping gives email that value) and true
\* for the other types only.
C7_NoDataEnabledByFallback ==
    (op = "isEverythingDisabled" /\ NoDataForType) =>
        result = (inType \notin {"alerts", "deploy", "workflow"})

\* isEverythingDisabled("deploy", {}) is false
C7_Witness ==
    /\ op = "isEverythingDisabled"
    /\ inType = "deploy"
    /\ inSettings = <<>>
    /\ result = FALSE

ActiveOf(settingsByProvider) ==
    Keys(SelectSeq(settingsByProvider, LAMBDA entry : entry[2] # "never"))

\* C9: when the tree has a user-scope entry for the type, getCurrentProviders
\* returns exactly the providers of that entry (the last one listed, when
\* there are several) whose level is not "never", "default" included.
C9_CurrentProvidersOfUserEntry ==
    (op = "getCurrentProviders" /\ UserEntries # <<>>) =>
        result = ActiveOf(UserEntries[Len(UserEntries)][2])

\* one user entry with a "default" and a "never" provider
C9_Witness ==
    /\ op = "getCurrentProviders"
    /\ Len(UserEntries) = 1
    /\ {UserEntries[1][2][i][2] : i \in 1..Len(UserEntries[1][2])} = {"default", "never"}
    /\ Len(result) = 1

\* C10 as stated: without user-scope data for the type, getCurrentProviders
\* returns the empty sequence.
C10_EmptyWithoutUserData ==
    (op = "getCurrentProviders" /\ UserEntries = <<>>) => result = <<>>

\* C10 as amended: without user-scope data for the type (no type, no "user"
\* scope, or a "user" scope without scope id), getCurrentProviders returns
\* the sequence holding "email" alone, the one provider the default mapping
\* does not set to "never".
C10_EmailWithoutUserData ==
    (op = "getCurrentProviders" /\ UserEntries = <<>>) => result = <<"email">>

\* the type has a "user" scope with no scope id
C10_Witness ==
    /\ op = "getCurrentProviders"
    /\ HasPath(inSettings, <<inType, "user">>)
    /\ UserEntries = <<>>
    /\ result = <<"email">>

(* ------------------------ claims: patch builders ---------------------- *)

\* the (scopeType, scopeId) paths of the entries a tree holds for one type
ScopePathsOf(byScopeType) ==
    UNION {{<<byScopeType[i][1], byScopeType[i][2][j][1]>> :
               j \in 1..Len(byScopeType[i][2])} :
           i \in 1..Len(byScopeType)}

\* the provider list of the provider form
RequestedProviders == inChangedData[1][2]

\* the new value of the default and parent forms
NewValue == inChangedData[1][2]

\* C11: when tree[type] has entries, the patch of getStateToPutForProvider
\* has the key type only, the (scopeType, scopeId) paths under it are exactly
\* those of tree[type], and the mapping at each path is the backfill of the
\* tree's mapping there against the new provider list, with the type's
\* fallback value and the path's own scope type.
C11_ProviderPatchBackfillsEachPath ==
    (/\ op = "getStateToPutForProvider"
     /\ ScopePathsOf(GetOr(inSettings, inType)) # {}) =>
        /\ thrown = ""
        /\ Keys(result) = <<inType>>
        /\ ScopePathsOf(GetOr(result, inType)) = ScopePathsOf(GetOr(inSettings, inType))
        /\ \A sp \in ScopePathsOf(GetOr(inSettings, inType)) :
               At(result, <<inType, sp[1], sp[2]>>) =
                   backfillMissingProvidersWithFallback(
                       At(inSettings, <<inType, sp[1], sp[2]>>), RequestedProviders,
                       getFallBackValue(inType), sp[1])

\* a tree with a user entry and a project entry, asked for slack only: the
\* project entry turns email to "default" and the user entry to "never"
C11_Witness ==
    /\ op = "getStateToPutForProvider"
    /\ inType = "alerts"
    /\ RequestedProviders = <<"slack">>
    /\ ScopePathsOf(GetOr(inSettings, inType)) = {<<"user", "7">>, <<"project", "1">>}
    /\ At(inSettings, <<"alerts", "project", "1">>) = << <<"email", "subscribe_only">> >>
    /\ At(result, <<"alerts", "project", "1">>) =
           << <<"email", "default">>, <<"slack", "subscribe_only">> >>
    /\ At(result, <<"alerts", "user", "7">>) =
           << <<"email", "never">>, <<"slack", "always">> >>

\* C12: whenever the tree has no entry for the type, be it empty or holding
\* other types only, getStateToPutForProvider returns the patch with the
\* single path type/user/"me" that maps each requested provider to the
\* type's fallback value.
C12_NoEntryGivesUserMe ==
    (op = "getStateToPutForProvider" /\ ~Has(inSettings, inType)) =>
        /\ thrown = ""
        /\ result =
               << <<inType,
                    << <<"user",
                         << <<"me",
                              fromEntries([i \in 1..Len(RequestedProviders) |->
                                  <<RequestedProviders[i], getFallBackValue(inType)>>])>> >>
                       >> >>
                  >> >>

\* the user-scope mapping getCurrentProviders reads from the tree saved by a
\* provider change
SavedUserData ==
    LET merged == mergeNotificationSettings(
                      <<inSettings, getStateToPutForProvider(inType, inSettings, inChangedData)>>)
        user == GetOr(GetOr(merged, inType), "user")
    IN  IF user = <<>> THEN <<>> ELSE user[Len(user)][2]

\* C13: for every tree and every list P of known providers, the providers
\* read back after the provider change is merged into the tree are exactly
\* those of P, minus any the backfill left at "never"; none is outside P.
C13_ProviderChangeRoundTrip ==
    (/\ op = "providerChangeRoundTrip"
     /\ \A i \in 1..Len(RequestedProviders) : RequestedProviders[i] \in {"email", "slack"}) =>
        /\ thrown = ""
        /\ {result[i] : i \in 1..Len(result)} =
               {RequestedProviders[i] : i \in 1..Len(RequestedProviders)}
               \ {SavedUserData[k][1] : k \in {j \in 1..Len(SavedUserData) :
                                                   SavedUserData[j][2] = "never"}}

\* the providers the default and parent forms write: the active ones
ActiveProviders == getCurrentProviders(inType, inSettings)

\* C14: the patch of getStateToPutForDefault has a user-scope entry keyed
\* "me", and no other user entry; its keys are the active providers of the
\* type, or email alone when none is active, and each is set to the new level.
C14_DefaultPatchUserEntry ==
    op = "getStateToPutForDefault" =>
        /\ Keys(At(result, <<inType, "user">>)) = <<"me">>
        /\ Keys(At(result, <<inType, "user", "me">>)) =
               (IF ActiveProviders = <<>> THEN <<"email">> ELSE ActiveProviders)
        /\ \A v \in {At(result, <<inType, "user", "me">>)[i][2] :
                         i \in 1..Len(At(result, <<inType, "user", "me">>))} : v = NewValue

\* no provider is active (the user entry has both at "never"), so email
\* alone is set to the new level
C14_Witness ==
    /\ op = "getStateToPutForDefault"
    /\ UserEntries # <<>>
    /\ ActiveProviders = <<>>
    /\ NewValue = "always"
    /\ At(result, <<inType, "user", "me">>) = << <<"email", "always">> >>

\* C15: the patch of getStateToPutForDefault has entries under the type's
\* grouping scope only when the new level is "never": then one entry for each
\* given parent id, each mapping the active providers (email when none is
\* active) to "default"; for any other level the patch has the user-scope
\* path only.
C15_DefaultPatchCascade ==
    op = "getStateToPutForDefault" =>
        IF NewValue = "never"
        THEN /\ ScopePathsOf(GetOr(result, inType)) =
                    {<<"user", "me">>}
                    \cup {<<GroupingScope, inParentIds[i]>> : i \in 1..Len(inParentIds)}
             /\ \A i \in 1..Len(inParentIds) :
                    LET byProvider == At(result, <<inType, GroupingScope, inParentIds[i]>>)
                    IN  /\ Keys(byProvider) =
                              (IF ActiveProviders = <<>> THEN <<"email">>
                               ELSE ActiveProviders)
                        /\ \A k \in 1..Len(byProvider) : byProvider[k][2] = "default"
        ELSE /\ Keys(GetOr(result, inType)) = <<"user">>
             /\ ScopePathsOf(GetOr(result, inType)) = {<<"user", "me">>}

\* the default of an organization-grouped type is set to "never" with two
\* parent ids and two active providers
C15_Witness ==
    /\ op = "getStateToPutForDefault"
    /\ inType = "quota"
    /\ NewValue = "never"
    /\ inParentIds = <<"2", "1">>
    /\ At(result, <<"quota", "organization", "1">>) =
           << <<"email", "default">>, <<"slack", "default">> >>
    /\ At(result, <<"quota", "organization", "2">>) =
           << <<"email", "default">>, <<"slack", "default">> >>

\* C16: the patch of getStateToPutForParent has exactly one path, type /
\* grouping scope / the given parent id, no user-scope entry and no other
\* parent id, and there every active provider is set to the new level
\* (none at all when no provider is active).
C16_ParentPatchSinglePath ==
    op = "getStateToPutForParent" =>
        /\ Keys(result) = <<inType>>
        /\ Keys(At(result, <<inType>>)) = <<GroupingScope>>
        /\ Keys(At(result, <<inType, GroupingScope>>)) = <<inParentId>>
        /\ Keys(At(result, <<inType, GroupingScope, inParentId>>)) = ActiveProviders
        /\ \A v \in {At(result, <<inType, GroupingScope, inParentId>>)[i][2] :
                         i \in 1..Len(ActiveProviders)} : v = NewValue

\* slack alone is active and is set to "always" for organization 2
C16_Witness ==
    /\ op = "getStateToPutForParent"
    /\ inType = "quota"
    /\ inParentId = "2"
    /\ ActiveProviders = <<"slack">>
    /\ result = << <<"quota", << <<"organization",
                                   << <<"2", << <<"slack", "always">> >> >> >> >> >> >> >>

PatchBuilt ==
    /\ op \in {"getStateToPutForProvider", "getStateToPutForDefault",
                "getStateToPutForParent"}
    /\ thrown = ""

\* the scope ids under the user scope of the patch
PatchUserIds == Keys(At(result, <<inType, "user">>))

\* C17 as stated: in every patch of the three builders, for every tree, each
\* scope id under the user scope is the literal "me".
C17_UserScopeIdIsMe ==
    PatchBuilt => \A i \in 1..Len(PatchUserIds) : PatchUserIds[i] = "me"

\* C17 as amended: the patch of getStateToPutForDefault, and that of
\* getStateToPutForProvider for an empty tree, have "me" as their one user
\* scope id; the patch of getStateToPutForParent has no user scope; the patch
\* of getStateToPutForProvider for a tree with keys has the user scope ids of
\* tree[type], whatever they are.
C17_UserScopeIdsByBuilder ==
    PatchBuilt =>
        PatchUserIds =
            CASE op = "getStateToPutForDefault" -> <<"me">>
              [] op = "getStateToPutForParent" -> <<>>
              [] OTHER -> IF inSettings = <<>> THEN <<"me">>
                          ELSE Keys(At(inSettings, <<inType, "user">>))

\* the tree holds the user's settings under the user id 7, and so does the
\* patch of the provider change
C17_Witness ==
    /\ op = "getStateToPutForProvider"
    /\ Keys(At(inSettings, <<inType, "user">>)) = <<"7">>
    /\ PatchUserIds = <<"7">>

\* C19: none of the three builders raises an error, for a known or an
\* unknown type and for every tree, a tree with keys but none for the type
\* included.
C19_BuildersNeverThrow ==
    op \in {"getStateToPutForProvider", "getStateToPutForDefault",
            "getStateToPutForParent"} => thrown = ""

(* ------------------------ claims: string helpers ---------------------- *)

\* C18: no function modifies its arguments: after any call every argument
\* is equal, element for element and in order, to its value before the call.
C18_ArgumentsNotModified ==
    [][<<inType, inSettings, inObjects, inData, inProviderList, inFallbackValue,
         inScopeType, inChangedData, inParentIds, inParentId, inChoices, inKey>>'
       = <<inType, inSettings, inObjects, inData, inProviderList, inFallbackValue,
           inScopeType, inChangedData, inParentIds, inParentId, inChoices, inKey>>]_vars

\* the rows of the choice list whose first element is the key
RowsWithKey == {i \in 1..Len(inChoices[1]) : inChoices[1][i][1] = inKey}

\* C20: getChoiceString returns the label of the first row of the choice list
\* whose first element is the key; it fails whenever a list is given and no
\* row has the key; without a choice list it returns "default".
C20_ChoiceString ==
    op = "getChoiceString" =>
        IF inChoices = <<>> THEN thrown = "" /\ result = "default"
        ELSE IF RowsWithKey = {} THEN thrown = "Error"
        ELSE /\ thrown = ""
             /\ \E i \in RowsWithKey :
                    /\ \A j \in RowsWithKey : i <= j
                    /\ result = inChoices[1][i][2]

\* two rows have the key, with different labels: the first one's is returned
C20_Witness ==
    /\ op = "getChoiceString"
    /\ inKey = "never"
    /\ inChoices = << << <<"never", "Off">>, <<"never", "On">> >> >>
    /\ result = "Off"

(* ------------------------ claims: landing page ------------------------ *)

\* two strings of the same length that differ in case only
SameIgnoringCase(x, y) ==
    /\ Len(x) = Len(y)
    /\ \A i \in 1..Len(x) :
           \/ x[i] = y[i]
           \/ <<x[i], y[i]>> \in {<<"a", "A">>, <<"A", "a">>, <<"b", "B">>, <<"B", "b">>}

\* the search text of the URL, without the spaces around it
SearchText ==
    IF inLanding.location.query = <<>> THEN <<>> ELSE trim(inLanding.location.query[1])

\* the prebuilt queries whose name contains the search text, whatever the case
PrebuiltMatching ==
    {i \in 1..Len(inLanding.views) :
        \E from \in 1..Len(inLanding.views[i]), to \in 1..Len(inLanding.views[i]) :
            SameIgnoringCase(SubSeq(inLanding.views[i], from, to), SearchText)}

CursorPresent ==
    inLanding.location.cursor # <<>> /\ inLanding.location.cursor[1] # <<>>

\* C29: the page size getEndpoints requests is between 1 and 9: 9 whenever
\* a cursor is present or the prebuilt queries are hidden, and otherwise
\* max(1, 9 - n), n being the number of all prebuilt queries when there is no
\* search text and of those whose name contains it, case ignored, when there
\* is one.
C29_PageSize ==
    op = "getEndpoints" =>
        /\ result \in 1..9
        /\ result =
               IF CursorPresent \/ ~inLanding.renderPrebuilt THEN 9
               ELSE LET n == IF SearchText = <<>> THEN Len(inLanding.views)
                             ELSE Cardinality(PrebuiltMatching)
                    IN  IF 9 - n >= 1 THEN 9 - n ELSE 1

\* nine prebuilt queries all match the upper-case search text "B ": one
\* saved query is asked for
C29_Witness ==
    /\ op = "getEndpoints"
    /\ inLanding.location.query = << <<"B", " ">> >>
    /\ ~CursorPresent
    /\ inLanding.renderPrebuilt
    /\ Cardinality(PrebuiltMatching) = 9
    /\ \E i \in 1..Len(inLanding.views) : inLanding.views[i] = <<"A", "b">>
    /\ result = 1

(* ------------------------ claims: rule editor ------------------------- *)

\* the poll requests not yet answered
PollsInFlight == SelectSeq(requests, LAMBDA request : request.kind = "poll")

\* a pollHandler invocation that started after the quit time it was given
PollTimedOut ==
    lastRun.handler = "pollHandler" /\ lastRun.at > lastRun.answer.timer.quitTime

\* C21: polling does not go on forever: the quit time of a polling chain is
\* fixed once, 3 minutes after fetchStatus is called, and a pollHandler
\* invocation that starts after it sends no request, shows the timeout
\* error, sets loading to false and schedules no further poll.
C21_PollingStopsAtQuitTime ==
    /\ \A i \in DOMAIN timers : timers[i].quitTime = timers[i].start + 180000
    /\ \A i \in DOMAIN PollsInFlight :
           PollsInFlight[i].quitTime = PollsInFlight[i].start + 180000
    /\ PollTimedOut =>
           /\ requests = lastRun.requestsBefore
           /\ lastRun.shown = << <<"error", "Looking for that channel took too long :(">> >>
           /\ state = [lastRun.pre EXCEPT !.loading = FALSE]
           /\ Len(timers) = Len(lastRun.timersBefore) - 1
           /\ \A i \in DOMAIN timers : \E j \in DOMAIN lastRun.timersBefore :
                  timers[i] = lastRun.timersBefore[j]

\* the task was pending at the first poll, and the next poll starts one
\* millisecond after the quit time: the loading mask is taken off
C21_Witness ==
    /\ PollTimedOut
    /\ sent.polls = 1
    /\ lastRun.at = lastRun.answer.timer.quitTime + 1
    /\ lastRun.pre.loading
    /\ ~state.loading
    /\ timers = <<>>
    /\ requests = <<>>

\* a rule-task request was answered
PollAnswered == lastRun.handler = "pollSucceeds"

\* C22: an answer with status "pending" schedules exactly one further poll,
\* one second later and with the quit time of the poll it answers, and leaves
\* the state (loading, detailedError, rule, uuid) as it was; no poll is
\* scheduled after an answer with any other status or after a request error.
C22_PendingPollsAgain ==
    /\ PollAnswered =>
           IF lastRun.answer.response.status = "pending"
           THEN /\ Len(timers) = Len(lastRun.timersBefore) + 1
                /\ SubSeq(timers, 1, Len(lastRun.timersBefore)) = lastRun.timersBefore
                /\ timers[Len(timers)].due = lastRun.at + 1000
                /\ timers[Len(timers)].quitTime = lastRun.answer.request.quitTime
                /\ state = lastRun.pre
                /\ lastRun.shown = <<>>
                /\ lastRun.pushed = <<>>
           ELSE timers = lastRun.timersBefore
    /\ lastRun.handler = "pollFails" => timers = lastRun.timersBefore

\* the second poll of a chain is answered "pending" too
C22_Witness ==
    /\ PollAnswered
    /\ lastRun.answer.response.status = "pending"
    /\ sent.polls = 2
    /\ lastRun.at = 2000
    /\ Len(timers) = 1
    /\ timers[1].due = 3000
    /\ timers[1].quitTime = 180000
    /\ state.loading

\* a pollHandler invocation completed without scheduling another poll
ChainEnded ==
    \/ PollTimedOut
    \/ PollAnswered /\ lastRun.answer.response.status # "pending"
    \/ lastRun.handler = "pollFails"

\* C23: whenever a pollHandler invocation completes without scheduling
\* another poll, whatever the answer (success, failed, success without a
\* rule, request error, timeout), loading is false.
C23_LoadingOffWhenChainEnds == ChainEnded => ~state.loading

\* C24: after an answer with status "failed", whatever else it carries,
\* detailedError holds the actions error (the error text of the answer, or
\* the generic message), loading is false, the rule in state is not replaced,
\* there is no navigation to the rules list and no success message.
C24_FailedIsNeverSuccess ==
    (PollAnswered /\ lastRun.answer.response.status = "failed") =>
        /\ state.detailedError =
               << << <<"actions",
                      <<IF lastRun.answer.response.error # <<>>
                        THEN lastRun.answer.response.error[1]
                        ELSE "An error occurred">> >> >> >>
        /\ ~state.loading
        /\ state.rule = lastRun.pre.rule
        /\ lastRun.pushed = <<>>
        /\ \A i \in DOMAIN lastRun.shown : lastRun.shown[i][1] # "success"

\* C25: handleSubmit starts polling exactly when the save succeeds with
\* HTTP status 202: then loading becomes true, detailedError null, uuid the
\* uuid of the answer, the first poll is scheduled (one second later, to quit
\* 3 minutes later) and nothing of the success handling happens; after any
\* other successful answer handleRuleSuccess runs at once (rule replaced,
\* loading false, navigation, success message) and no poll is scheduled;
\* neither sending the request nor its failure schedules one.
C25_PollingStartsOn202Only ==
    /\ lastRun.handler = "saveSucceeds" =>
           IF lastRun.answer.xhr = <<202>>
           THEN /\ state = [lastRun.pre EXCEPT
                               !.loading = TRUE,
                               !.detailedError = <<>>,
                               !.uuid = <<GetOr(lastRun.answer.resp, "uuid")>>]
                /\ timers = Append(lastRun.timersBefore,
                                   [due |-> lastRun.at + 1000,
                                    quitTime |-> lastRun.at + 180000,
                                    start |-> lastRun.at])
                /\ lastRun.pushed = <<>>
                /\ \A i \in DOMAIN lastRun.shown : lastRun.shown[i][1] # "success"
           ELSE /\ state = [lastRun.pre EXCEPT
                               !.loading = FALSE,
                               !.detailedError = <<>>,
                               !.rule = <<lastRun.answer.resp>>]
                /\ lastRun.pushed = <<"/organizations/:orgId/alerts/rules/">>
                /\ \E i \in DOMAIN lastRun.shown : lastRun.shown[i][1] = "success"
                /\ timers = lastRun.timersBefore
    /\ lastRun.handler \in {"handleSubmit", "saveFails"} => timers = lastRun.timersBefore

\* the save of a new rule is answered 202 while the form shows an error
C25_Witness ==
    /\ lastRun.handler = "saveSucceeds"
    /\ lastRun.answer.xhr = <<202>>
    /\ lastRun.pre.detailedError # <<>>
    /\ state.detailedError = <<>>
    /\ state.loading
    /\ state.uuid = <<"u2">>
    /\ timers = << [due |-> 1000, quitTime |-> 180000, start |-> 0] >>

\* the save request of the only handleSubmit so far failed
OnlySaveFailed ==
    /\ lastRun.handler = "saveFails"
    /\ sent = [saves |-> 1, polls |-> 0]

\* what a failed save leaves in state besides the rule
SaveFailureShown ==
    /\ state.detailedError =
           (IF lastRun.answer.responseJSON # <<>> THEN lastRun.answer.responseJSON
            ELSE << << <<"__all__", "Unknown error">> >> >>)
    /\ ~state.loading
    /\ timers = lastRun.timersBefore
    /\ lastRun.pushed = <<>>

\* C26 as stated: when the save request fails, detailedError is the JSON
\* body of the error response (or {__all__: 'Unknown error'}), loading is
\* false, no poll is scheduled, nothing is navigated to, and the rule in
\* state is exactly the rule of before the submit.
C26_SaveFailureKeepsRule ==
    OnlySaveFailed =>
        /\ SaveFailureShown
        /\ state.rule = lastRun.answer.request.ruleBefore

\* C26 as amended: as stated, but the rule in state is the rule of before
\* the submit without its environment entry when that entry was the
\* all-environments key (handleSubmit deletes it from the rule in state
\* before it sends the request), and the rule of before the submit otherwise.
C26_SaveFailureKeepsRuleButAllEnvironments ==
    OnlySaveFailed =>
        /\ SaveFailureShown
        /\ state.rule = lastRun.pre.rule
        /\ LET before == lastRun.answer.request.ruleBefore
           IN  state.rule =
                   IF before # <<>> /\ <<"environment", "__all_environments__">> \in
                                          {before[1][i] : i \in DOMAIN before[1]}
                   THEN <<SelectSeq(before[1], LAMBDA entry : entry[1] # "environment")>>
                   ELSE before

\* the save of the default rule fails without a JSON body: the rule in
\* state has lost its environment entry
C26_Witness ==
    /\ OnlySaveFailed
    /\ lastRun.answer.responseJSON = <<>>
    /\ lastRun.answer.request.ruleBefore # <<>>
    /\ Has(lastRun.answer.request.ruleBefore[1], "environment")
    /\ ~Has(state.rule[1], "environment")
    /\ ~state.loading


\* the keys of an object
FieldsOf(object) == {object[i][1] : i \in 1..Len(object)}

\* the entries of detailedError, none when it is null
ErrorEntries(detailedError) == IF detailedError = <<>> THEN <<>> ELSE detailedError[1]

\* the two objects hold the same value under every key but the given one
SameBut(before, after, key) ==
    /\ FieldsOf(before) \ {key} = FieldsOf(after) \ {key}
    /\ \A other \in FieldsOf(before) \ {key} : GetOr(after, other) = GetOr(before, other)

\* C27: handleChange(prop, val) sets rule[prop] to val, removes the entry of
\* prop, and only that entry, from detailedError, and leaves every other rule
\* field, every other detailedError entry, and loading, uuid, configs and
\* environments as they were.
C27_HandleChangeFrame ==
    lastRun.handler = "handleChange" =>
        LET pre == lastRun.pre
            prop == lastRun.answer.prop
        IN  /\ Has(state.rule[1], prop)
            /\ GetOr(state.rule[1], prop) = lastRun.answer.val
            /\ SameBut(pre.rule[1], state.rule[1], prop)
            /\ ~Has(ErrorEntries(state.detailedError), prop)
            /\ SameBut(ErrorEntries(pre.detailedError),
                       ErrorEntries(state.detailedError), prop)
            /\ state.loading = pre.loading
            /\ state.uuid = pre.uuid
            /\ state.configs = pre.configs
            /\ state.environments = pre.environments

\* the name is changed while the name and the actions are both in error
C27_Witness ==
    /\ lastRun.handler = "handleChange"
    /\ lastRun.answer.prop = "name"
    /\ lastRun.pre.detailedError = <<FormError>>
    /\ GetOr(lastRun.pre.rule[1], "name") # "mine"
    /\ GetOr(lastRun.pre.rule[1], "actions") # <<>>
    /\ Has(ErrorEntries(state.detailedError), "actions")

\* the three lists of a rule
RowTypes == {"conditions", "filters", "actions"}

\* the array without the element at the zero-based index, if there is one
WithoutIndex(array, idx) ==
    IF idx >= Len(array) THEN array
    ELSE [i \in 1..(Len(array) - 1) |-> IF i <= idx THEN array[i] ELSE array[i + 1]]

\* C28: an add appends one row with the given id at the end of its own list,
\* a delete removes exactly the row at the given index of its own list, and
\* neither changes the other two lists; so after any sequence of adds and
\* deletes each list holds the rows added to it and not deleted, in the order
\* they were added.
C28_RowsAddedAndDeleted ==
    /\ lastRun.handler = "handleAddRow" =>
           LET type == lastRun.answer.type
               before == GetOr(lastRun.pre.rule[1], type)
               after == GetOr(state.rule[1], type)
           IN  /\ Len(after) = Len(before) + 1
               /\ SubSeq(after, 1, Len(before)) = before
               /\ Has(after[Len(after)], "id")
               /\ GetOr(after[Len(after)], "id") = lastRun.answer.id
               /\ SameBut(lastRun.pre.rule[1], state.rule[1], type)
    /\ lastRun.handler = "handleDeleteRow" =>
           LET type == lastRun.answer.type
               before == GetOr(lastRun.pre.rule[1], type)
               after == GetOr(state.rule[1], type)
           IN  /\ after = WithoutIndex(before, lastRun.answer.idx)
               /\ SameBut(lastRun.pre.rule[1], state.rule[1], type)

\* the first of two actions is deleted, the second being a row that was added
\* with the initial values of its template
C28_Witness ==
    /\ lastRun.handler = "handleDeleteRow"
    /\ lastRun.answer.type = "actions"
    /\ lastRun.answer.idx = 0
    /\ Len(GetOr(lastRun.pre.rule[1], "actions")) = 2
    /\ GetOr(lastRun.pre.rule[1], "actions")[2] =
           << <<"workspace", "w1">>, <<"tags", "level">>, <<"id", "slack">> >>
    /\ GetOr(lastRun.pre.rule[1], "actions")[1] = << <<"id", "mail">> >>
    /\ Len(GetOr(state.rule[1], "actions")) = 1
    /\ GetOr(lastRun.pre.rule[1], "filters") # <<>>

====
